---- MODULE Spec2Model ----
(***************************************************************************)
(* A model of light2d-rs (src/src/main.rs): the shape/CSG layer, the       *)
(* nearest-hit resolver, the recursive tracer, the pixel sampler and the   *)
(* pixel loop of main.                                                     *)
(*                                                                         *)
(* Numbers.  The program computes in f64.  The model computes in fixed     *)
(* point: the integer v stands for the real v / SCALE, a product or a      *)
(* quotient is rounded to the nearest multiple of 1 / SCALE, sqrt, exp,    *)
(* sin and cos are computed to that resolution.  On the axis-aligned       *)
(* inputs of SpecScene and SpecCsg every operation is exact.               *)
(***************************************************************************)
EXTENDS Integers, Sequences, FiniteSets

VARIABLES
    entities,   \* Scene.entities
    reordered,  \* the same entities in the other order: a second Scene
    ray,        \* the ray (p, d) of the last Scene::intersect
    found,      \* Scene::intersect over entities
    foundRev,   \* Scene::intersect over reordered
    csg,        \* an IntersectShape
    csgRay,     \* the ray of the last IntersectShape::intersect
    csgHit,     \* its result
    scene,      \* the Scene trace and sample run against
    traced,     \* the record of the last top-level trace call
    rng,        \* ThreadRng: the generator's state and the draws it has yielded
    angles,     \* sample: the angles mapped so far, the Vec<f64> once collected
    results,    \* sample: the parallel trace tasks that have run
    pixel,      \* sample: the (x, y) sampled, and the returned colour
    phase,      \* sample: where the call is
    cursor,     \* main: the pixel loop's (x, y)
    img,        \* main: the ImageBuffer
    sampled,    \* main: the colour sample returned for the last pixel
    saved,      \* main: out.png is written
    polyArg,    \* Polygon::new: whether it was called, and its argument
    polygon,    \* the constructed Polygon
    polyHit,    \* the last Polygon::intersect call made on it
    panicked    \* the process has panicked

\* f64: one unit of the model is 1 / SCALE.
SCALE == 1000

\* const EPSILON: f64 = 1e-6, a threshold far above f64's rounding noise and
\* far below the scene's features; likewise here, in units of 1 / SCALE.
EPSILON == 5

\* const MAX_DEPTH: u32 = 3
MAX_DEPTH == 3

\* std::f64::consts::PI
PI == 3142

One == SCALE

\* let x = v; e: Let(v, LAMBDA x : e).
Let(v, F(_)) == F(v)

Abs(a) == IF a < 0 THEN -a ELSE a

\* The quotient a / b (b > 0) rounded to the nearest integer.
RoundDiv(a, b) == IF a >= 0 THEN (2 * a + b) \div (2 * b)
                            ELSE -((2 * (-a) + b) \div (2 * b))

\* f64 multiplication.
FMul(a, b) == RoundDiv(a * b, SCALE)

\* f64 division (b nonzero wherever the program divides).
FDiv(a, b) == IF b > 0 THEN RoundDiv(a * SCALE, b) ELSE RoundDiv((-a) * SCALE, -b)

\* r * r <= n, for r within the integers whose square is representable.
SquareFits(r, n) == r <= 46340 /\ r * r <= n

\* The largest digit h in 0..35 such that the square of base + h * step fits n.
SqrtDigit(base, step, n) ==
    CHOOSE h \in 0..35 : SquareFits(base + h * step, n)
                          /\ ~SquareFits(base + (h + 1) * step, n)

\* The integer square root of n, digit by digit in base 36.
ISqrt(n) ==
    Let(1296 * SqrtDigit(0, 1296, n), LAMBDA a :
    Let(a + 36 * SqrtDigit(a, 36, n), LAMBDA b :
    b + SqrtDigit(b, 1, n)))

\* f64::sqrt on a non-negative argument, to the nearest unit.
FSqrt(a) ==
    Let(a * SCALE, LAMBDA n :
    Let(ISqrt(n), LAMBDA r :
    IF n - r * r > r THEN r + 1 ELSE r))

\* e^-1
EInv == 368

RECURSIVE PowEInv(_)
PowEInv(n) == IF n = 0 THEN One ELSE FMul(EInv, PowEInv(n - 1))

\* f64::exp on a non-positive argument -x (x >= 0): e^-floor(x) times the
\* Taylor polynomial of e^-f on the fractional part f.
ExpNeg(x) ==
    Let(x % SCALE, LAMBDA f :
    Let(FMul(f, f), LAMBDA f2 :
    Let(FMul(f2, f), LAMBDA f3 :
    Let(FMul(f3, f), LAMBDA f4 :
    Let(FMul(f4, f), LAMBDA f5 :
    Let(FMul(f5, f), LAMBDA f6 :
    Let(One - f + RoundDiv(f2, 2) - RoundDiv(f3, 6) + RoundDiv(f4, 24)
            - RoundDiv(f5, 120) + RoundDiv(f6, 720), LAMBDA s :
    IF x \div SCALE > 12 THEN 0 ELSE FMul(PowEInv(x \div SCALE), s))))))))

\* f64::sin on [-PI/2, PI/2]: the Taylor polynomial.
SinPoly(x) ==
    Let(FMul(x, x), LAMBDA x2 :
    Let(FMul(x2, x), LAMBDA x3 :
    Let(FMul(x3, x2), LAMBDA x5 :
    Let(FMul(x5, x2), LAMBDA x7 :
    x - RoundDiv(x3, 6) + RoundDiv(x5, 120) - RoundDiv(x7, 5040)))))

\* f64::sin on [-PI, 3 PI].
Sin(a) ==
    LET b == IF a > PI THEN a - 2 * PI ELSE a
        c == IF b > PI THEN b - 2 * PI ELSE b
    IN  IF 2 * c > PI THEN SinPoly(PI - c)
        ELSE IF 2 * c < -PI THEN SinPoly(-PI - c)
        ELSE SinPoly(c)

\* f64::cos on [0, 2 PI].
Cos(a) == Sin(a + PI \div 2)

(***************************************************************************)
(* Color                                                                   *)
(***************************************************************************)
Color(r, g, b) == [r |-> r, g |-> g, b |-> b]

black == Color(0, 0, 0)

\* impl Add<Color> for Color
ColorAdd(x, y) == Color(x.r + y.r, x.g + y.g, x.b + y.b)

\* impl Mul<Color> for Color
ColorMul(x, y) == Color(FMul(x.r, y.r), FMul(x.g, y.g), FMul(x.b, y.b))

\* impl Mul<f64> for Color
ColorScale(x, s) == Color(FMul(x.r, s), FMul(x.g, s), FMul(x.b, s))

(***************************************************************************)
(* Shapes.  Option<Intersection> is None or Some(point, normal).           *)
(***************************************************************************)
None == [tag |-> "None"]

Some(point, normal) == [tag |-> "Some", point |-> point, normal |-> normal]

IsSome(o) == o.tag = "Some"

Circle(cx, cy, r) == [kind |-> "Circle", cx |-> cx, cy |-> cy, r |-> r]

Plane(px, py, nx, ny) == [kind |-> "Plane", px |-> px, py |-> py, nx |-> nx, ny |-> ny]

UnionShape(a, b) == [kind |-> "Union", a |-> a, b |-> b]

IntersectShape(a, b) == [kind |-> "Intersect", a |-> a, b |-> b]

\* fn distance
distance(p1, p2) ==
    LET dx == p1[1] - p2[1]
        dy == p1[2] - p2[2]
    IN  FSqrt(FMul(dx, dx) + FMul(dy, dy))

\* Circle::intersect
CircleIntersect(s, p, d) ==
    Let(FMul(d[1], d[1]) + FMul(d[2], d[2]), LAMBDA a :
    Let(p[1] - s.cx, LAMBDA ocx :
    Let(p[2] - s.cy, LAMBDA ocy :
    Let(2 * (FMul(ocx, d[1]) + FMul(ocy, d[2])), LAMBDA b :
    Let(FMul(ocx, ocx) + FMul(ocy, ocy) - FMul(s.r, s.r), LAMBDA c :
    Let(FMul(b, b) - 4 * FMul(a, c), LAMBDA delta :
    IF delta < 0 THEN None
    ELSE
        Let(FDiv(-b - FSqrt(delta), 2 * a), LAMBDA t1 :
        Let(FDiv(-b + FSqrt(delta), 2 * a), LAMBDA t2 :
        Let(IF t1 > EPSILON THEN t1 ELSE t2, LAMBDA t :
        IF t > EPSILON
        THEN
            Let(p[1] + FMul(d[1], t), LAMBDA x :
            Let(p[2] + FMul(d[2], t), LAMBDA y :
            Let(x - s.cx, LAMBDA nx :
            Let(y - s.cy, LAMBDA ny :
            Let(FSqrt(FMul(nx, nx) + FMul(ny, ny)), LAMBDA len :
            Some(<<x, y>>, <<FDiv(nx, len), FDiv(ny, len)>>))))))
        ELSE None)))))))))

\* Circle::is_inside
CircleIsInside(s, p) ==
    LET x == p[1] - s.cx
        y == p[2] - s.cy
    IN  x * x + y * y < s.r * s.r

\* Plane::intersect
PlaneIntersect(s, p, d) ==
    Let(FMul(d[1], s.nx) + FMul(d[2], s.ny), LAMBDA a :
    IF Abs(a) < EPSILON THEN None
    ELSE
        Let(FMul(s.px - p[1], s.nx) + FMul(s.py - p[2], s.ny), LAMBDA b :
        Let(FDiv(b, a), LAMBDA t :
        IF t > EPSILON
        THEN Some(<<p[1] + FMul(d[1], t), p[2] + FMul(d[2], t)>>, <<s.nx, s.ny>>)
        ELSE None)))

\* Plane::is_inside
PlaneIsInside(s, p) == (p[1] - s.px) * s.nx + (p[2] - s.py) * s.ny < 0

\* A constructor that rejects only the empty vertex list.
SomePoints(p) == Len(p) > 0

\* Polygon::new: if p.len() > 1
EnoughPoints(p) == Len(p) > 1

\* struct Polygon
Polygon(points) == [kind |-> "Polygon", points |-> points]

\* The vertex after vertex i: points[0] after the last.
NextPoint(points, i) == IF i = Len(points) THEN points[1] ELSE points[i + 1]

\* Polygon::intersect: the nearer of the hit so far, res, and the new hit.
PolygonNearer(res, intersect, p) ==
    IF IsSome(res)
    THEN IF distance(p, intersect.point) < distance(p, res.point) THEN intersect ELSE res
    ELSE intersect

\* Polygon::intersect: product1 and product2 for the edge from a to b.
PolygonProducts(a, b, p, d) ==
    << (a[1] - p[1]) * d[2] - d[1] * (a[2] - p[2]),
       (b[1] - p[1]) * d[2] - d[1] * (b[2] - p[2]) >>

\* product1 * product2 < 0.0
Straddles(products) ==
    \/ products[1] < 0 /\ products[2] > 0
    \/ products[1] > 0 /\ products[2] < 0

\* Polygon::intersect: the unit normal (nx, ny) of the edge from a to b.
PolygonEdgeNormal(a, b) ==
    Let(FSqrt(FMul(a[2] - b[2], a[2] - b[2]) + FMul(b[1] - a[1], b[1] - a[1])),
        LAMBDA len :
    <<FDiv(a[2] - b[2], len), FDiv(b[1] - a[1], len)>>)

\* Polygon::intersect: the hit on the line through a with unit normal n, if
\* the ray is not parallel to it and the hit lies ahead.
PolygonEdgeAt(a, n, p, d) ==
    Let(FMul(d[1], n[1]) + FMul(d[2], n[2]), LAMBDA c1 :
    IF Abs(c1) > EPSILON
    THEN
        Let(FDiv(FMul(a[1] - p[1], n[1]) + FMul(a[2] - p[2], n[2]), c1), LAMBDA t :
        IF t > EPSILON
        THEN Some(<<p[1] + FMul(d[1], t), p[2] + FMul(d[2], t)>>, n)
        ELSE None)
    ELSE None)

\* Polygon::intersect, the body of the loop over the edges: where the ray
\* crosses the edge from a to b, if it does.
PolygonEdgeHit(a, b, p, d) ==
    IF Straddles(PolygonProducts(a, b, p, d))
    THEN PolygonEdgeAt(a, PolygonEdgeNormal(a, b), p, d)
    ELSE None

\* Polygon::intersect, the body of the loop over the edges: res after the edge
\* from a to b.
PolygonEdge(a, b, res, p, d) ==
    Let(PolygonEdgeHit(a, b, p, d), LAMBDA intersect :
    IF IsSome(intersect) THEN PolygonNearer(res, intersect, p) ELSE res)

RECURSIVE PolygonLoop(_, _, _, _, _)
\* for i in 0..self.points.len()
PolygonLoop(points, i, res, p, d) ==
    IF i > Len(points) THEN res
    ELSE PolygonLoop(points, i + 1,
                     PolygonEdge(points[i], NextPoint(points, i), res, p, d), p, d)

\* Polygon::intersect
PolygonIntersect(s, p, d) == PolygonLoop(s.points, 1, None, p, d)

\* Polygon::is_inside
PolygonIsInside(s, p) ==
    \A i \in 1..Len(s.points) :
        LET a  == s.points[i]
            b  == NextPoint(s.points, i)
            ax == b[1] - a[1]
            ay == b[2] - a[2]
            bx == p[1] - a[1]
            by == p[2] - a[2]
        IN  ~(ax * by - bx * ay >= 0)

\* Polygon::rectangle with theta = 0 (cos = 1, sin = 0)
rectangle(cx, cy, sx, sy) ==
    Polygon(<< <<sx + cx, -sy + cy>>, <<-sx + cx, -sy + cy>>,
               <<-sx + cx, sy + cy>>, <<sx + cx, sy + cy>> >>)

RECURSIVE ShapeIsInside(_, _)
\* Shape::is_inside, dispatched on the variant.
ShapeIsInside(s, p) ==
    CASE s.kind = "Circle"    -> CircleIsInside(s, p)
      [] s.kind = "Plane"     -> PlaneIsInside(s, p)
      [] s.kind = "Polygon"   -> PolygonIsInside(s, p)
      [] s.kind = "Union"     -> ShapeIsInside(s.a, p) \/ ShapeIsInside(s.b, p)
      [] s.kind = "Intersect" -> ShapeIsInside(s.a, p) /\ ShapeIsInside(s.b, p)

\* UnionShape::intersect on the children's results r1, r2.
UnionPick(r1, r2, p) ==
    IF IsSome(r1) /\ IsSome(r2)
    THEN LET d1 == distance(p, r1.point)
             d2 == distance(p, r2.point)
         IN  IF d1 < d2 THEN r1 ELSE r2
    ELSE IF ~IsSome(r1) THEN r2
    ELSE r1

\* IntersectShape::intersect on the children's results i1, i2; a and b are
\* the children.
IntersectPick(a, b, i1, i2, p) ==
    IF IsSome(i1) /\ IsSome(i2)
    THEN IF ShapeIsInside(a, i2.point) /\ ShapeIsInside(b, i1.point)
         THEN LET d1 == distance(p, i1.point)
                  d2 == distance(p, i2.point)
              IN  IF d1 < d2 THEN i1 ELSE i2
         ELSE IF ShapeIsInside(a, i2.point) THEN i2
         ELSE IF ShapeIsInside(b, i1.point) THEN i1
         ELSE None
    ELSE IF IsSome(i2)
    THEN IF ShapeIsInside(a, i2.point) THEN i2 ELSE None
    ELSE IF IsSome(i1)
    THEN IF ShapeIsInside(b, i1.point) THEN i1 ELSE None
    ELSE None

RECURSIVE ShapeIntersect(_, _, _)
\* Shape::intersect, dispatched on the variant.
ShapeIntersect(s, p, d) ==
    CASE s.kind = "Circle"    -> CircleIntersect(s, p, d)
      [] s.kind = "Plane"     -> PlaneIntersect(s, p, d)
      [] s.kind = "Polygon"   -> PolygonIntersect(s, p, d)
      [] s.kind = "Union"     ->
            UnionPick(ShapeIntersect(s.a, p, d), ShapeIntersect(s.b, p, d), p)
      [] s.kind = "Intersect" ->
            IntersectPick(s.a, s.b, ShapeIntersect(s.a, p, d), ShapeIntersect(s.b, p, d), p)

(***************************************************************************)
(* Entity and Scene                                                        *)
(***************************************************************************)
Entity(shape, emissive, reflectivity, eta, absorption) ==
    [shape |-> shape, emissive |-> emissive, reflectivity |-> reflectivity,
     eta |-> eta, absorption |-> absorption]

\* Entity::intersect: the closure mapped over the shape's Option<Intersection>.
EntityHit(e, i) ==
    IF IsSome(i)
    THEN [tag |-> "Some", point |-> i.point, normal |-> i.normal,
          emissive |-> e.emissive, reflectivity |-> e.reflectivity,
          eta |-> e.eta, absorption |-> e.absorption]
    ELSE None

\* Entity::intersect: Option<EntityIntersection>
EntityIntersect(e, p, d) == EntityHit(e, ShapeIntersect(e.shape, p, d))

\* A resolver that also replaces the hit so far on equal distance.
ReplacesOrTies(r, intersection, p) ==
    distance(p, r.point) >= distance(p, intersection.point)

\* Scene::intersect: whether the hit of the next entity, intersection,
\* replaces the nearest hit so far, r.
Replaces(r, intersection, p) == distance(p, r.point) > distance(p, intersection.point)

\* Scene::intersect, the body of the loop: res after the entity whose hit is
\* intersection.
SceneStep(res, intersection, p) ==
    IF IsSome(intersection)
    THEN IF IsSome(res)
         THEN IF Replaces(res, intersection, p) THEN intersection ELSE res
         ELSE intersection
    ELSE res

RECURSIVE SceneLoop(_, _, _, _, _)
\* for e in &self.entities
SceneLoop(ents, i, res, p, d) ==
    IF i > Len(ents) THEN res
    ELSE SceneLoop(ents, i + 1, SceneStep(res, EntityIntersect(ents[i], p, d), p), p, d)

\* Scene::intersect
SceneIntersect(ents, p, d) == SceneLoop(ents, 1, None, p, d)

(***************************************************************************)
(* Optics                                                                  *)
(***************************************************************************)
\* fn reflect
reflect(ix, iy, nx, ny) ==
    Let((FMul(ix, nx) + FMul(iy, ny)) * 2, LAMBDA dot2 :
    <<ix - FMul(dot2, nx), iy - FMul(dot2, ny)>>)

\* fn refract: Option<(f64, f64)>
refract(ix, iy, nx, ny, eta) ==
    Let(FMul(ix, nx) + FMul(iy, ny), LAMBDA dot :
    Let(One - FMul(FMul(eta, eta), One - FMul(dot, dot)), LAMBDA k :
    IF k < 0 THEN None
    ELSE
        Let(FMul(eta, dot) + FSqrt(k), LAMBDA a :
        [tag |-> "Some",
         dir |-> <<FMul(eta, ix) - FMul(a, nx), FMul(eta, iy) - FMul(a, ny)>>])))

\* fn schlick
schlick(cosi, cost, etai, etat) ==
    Let(FDiv(etai - etat, etai + etat), LAMBDA r00 :
    Let(FMul(r00, r00), LAMBDA r0 :
    Let(IF etai < etat THEN One - cosi ELSE One - cost, LAMBDA a :
    Let(FMul(a, a), LAMBDA aa :
    r0 + FMul(FMul(FMul(One - r0, aa), aa), a)))))

\* fn beer_lambert
beer_lambert(a, d) ==
    Color(ExpNeg(FMul(a.r, d)), ExpNeg(FMul(a.g, d)), ExpNeg(FMul(a.b, d)))

(***************************************************************************)
(* fn trace.  The value is the record of the call: its arguments, what it  *)
(* hit, its locals, the records of the recursive calls it made (refracted  *)
(* and reflected: a sequence of none or one) and the colour it returns.    *)
(***************************************************************************)
\* let sign = if r.normal.0 * dx + r.normal.1 * dy < 0.0 { 1.0 } else { -1.0 }
Sign(r, dx, dy) == IF r.normal[1] * dx + r.normal[2] * dy < 0 THEN 1 ELSE -1

\* A cutoff one level late.
DepthAllowsInclusive(depth) == depth <= MAX_DEPTH

\* depth < MAX_DEPTH
DepthAllows(depth) == depth < MAX_DEPTH

\* An origin moved off the surface along the oriented normal.
BiasedOrigin(r, nx, ny, side) ==
    IF side = "reflected"
    THEN <<r.point[1] + nx \div 100, r.point[2] + ny \div 100>>
    ELSE <<r.point[1] - nx \div 100, r.point[2] - ny \div 100>>

\* let (x, y) = r.point: the origin of both recursive rays.
RecursiveOrigin(r, nx, ny, side) == r.point

\* A tracer that keeps the material's reflectivity when refraction fails.
TirKeepsReflectivity(r) == r.reflectivity

\* None => { refl = 1.0 }
TirReflectivity(r) == One

\* A tracer that weights the refracted colour like the reflected one.
RefractWeightSame(refl) == refl

\* The weight of the refracted colour: (1.0 - refl).
RefractWeight(refl) == One - refl

\* A tracer that attenuates on the wrong side of the surface.
AttenuatesOutside(sign) == sign > 0

\* if sign < 0.0 { sum = sum * beer_lambert(..) }
Attenuates(sign) == sign < 0

\* The weight of the reflected colour: refl.
ReflectWeight(refl) == refl

\* Some((rx, ry)) => { .. refl = if sign < 0.0 { schlick(..) } else { schlick(..) } }
Reflectance(r, sign, dx, dy, nx, ny, rx, ry) ==
    Let(-(FMul(dx, nx) + FMul(dy, ny)), LAMBDA cosi :
    Let(-(FMul(rx, nx) + FMul(ry, ny)), LAMBDA cost :
    IF sign < 0 THEN schlick(cosi, cost, r.eta, One) ELSE schlick(cosi, cost, One, r.eta)))

\* The call that hit nothing: Color::black().
Miss(ox, oy, dx, dy, depth) ==
    [origin |-> <<ox, oy>>, dir |-> <<dx, dy>>, depth |-> depth, hit |-> FALSE,
     r |-> None, sign |-> 0, n |-> <<0, 0>>, tried |-> FALSE, tir |-> FALSE,
     refl |-> 0, refracted |-> <<>>, reflected |-> <<>>, sum |-> black, color |-> black]

\* trace, from the hit r to the recursive calls: the locals and the two
\* recursive rays.
TraceLocals(r, dx, dy, depth) ==
    Let(Sign(r, dx, dy), LAMBDA sign :
    Let(DepthAllows(depth) /\ (r.reflectivity > 0 \/ r.eta > 0), LAMBDA enter :
    Let(r.normal[1] * sign, LAMBDA nx :
    Let(r.normal[2] * sign, LAMBDA ny :
    \* if r.eta > 0.0 { .. match refract(dx, dy, nx, ny, eta) .. }
    Let(enter /\ r.eta > 0, LAMBDA tried :
    Let(IF tried
        THEN refract(dx, dy, nx, ny, IF sign < 0 THEN r.eta ELSE FDiv(One, r.eta))
        ELSE None, LAMBDA rr :
    Let(tried /\ IsSome(rr), LAMBDA ok :
    Let(IF ok THEN Reflectance(r, sign, dx, dy, nx, ny, rr.dir[1], rr.dir[2])
        ELSE IF tried THEN TirReflectivity(r)
        ELSE r.reflectivity, LAMBDA refl :
    [sign |-> sign, n |-> <<nx, ny>>, tried |-> tried, ok |-> ok, refl |-> refl,
     \* trace(scene, x, y, rx, ry, depth + 1) * (1.0 - refl)
     refract |-> ok,
     refractFrom |-> RecursiveOrigin(r, nx, ny, "refracted"),
     refractDir |-> IF ok THEN rr.dir ELSE <<0, 0>>,
     \* if refl > 0.0 { .. trace(scene, x, y, rx, ry, depth + 1) * refl }
     reflect |-> enter /\ refl > 0,
     reflectFrom |-> RecursiveOrigin(r, nx, ny, "reflected"),
     reflectDir |-> reflect(dx, dy, nx, ny)]))))))))

\* sum after sum = sum + trace(..) * (1.0 - refl), if that call was made.
TraceSum1(r, l, refr) ==
    IF l.refract THEN ColorAdd(r.emissive, ColorScale(refr[1].color, RefractWeight(l.refl)))
    ELSE r.emissive

\* sum after sum = sum + trace(..) * refl, if that call was made.
TraceSum2(r, l, refr, rfl) ==
    IF l.reflect
    THEN ColorAdd(TraceSum1(r, l, refr), ColorScale(rfl[1].color, ReflectWeight(l.refl)))
    ELSE TraceSum1(r, l, refr)

\* if sign < 0.0 { sum = sum * beer_lambert(r.absorption, distance(..)) }; sum
TraceColor(ox, oy, r, l, sum) ==
    IF Attenuates(l.sign)
    THEN ColorMul(sum, beer_lambert(r.absorption, distance(<<ox, oy>>, r.point)))
    ELSE sum

\* trace, after the hit r: refr and rfl are the records of the refracted and
\* the reflected recursive call, if made.
TraceHit(ox, oy, dx, dy, depth, r, l, refr, rfl) ==
    [origin |-> <<ox, oy>>, dir |-> <<dx, dy>>, depth |-> depth, hit |-> TRUE,
     r |-> r, sign |-> l.sign, n |-> l.n, tried |-> l.tried, tir |-> l.tried /\ ~l.ok,
     refl |-> l.refl, refracted |-> refr, reflected |-> rfl,
     sum |-> TraceSum2(r, l, refr, rfl),
     color |-> TraceColor(ox, oy, r, l, TraceSum2(r, l, refr, rfl))]

RECURSIVE trace(_, _, _, _, _, _)
\* The recursive call along the ray from o in direction d, if made.
TraceChild(sc, made, o, d, depth) ==
    IF made THEN <<trace(sc, o[1], o[2], d[1], d[2], depth)>> ELSE <<>>

\* trace on the hit r with the locals l.
TraceFrom(sc, ox, oy, dx, dy, depth, r, l) ==
    TraceHit(ox, oy, dx, dy, depth, r, l,
             TraceChild(sc, l.refract, l.refractFrom, l.refractDir, depth + 1),
             TraceChild(sc, l.reflect, l.reflectFrom, l.reflectDir, depth + 1))

\* fn trace
trace(sc, ox, oy, dx, dy, depth) ==
    Let(SceneIntersect(sc, <<ox, oy>>, <<dx, dy>>), LAMBDA r :
    IF IsSome(r)
    THEN TraceFrom(sc, ox, oy, dx, dy, depth, r, TraceLocals(r, dx, dy, depth))
    ELSE Miss(ox, oy, dx, dy, depth))

(***************************************************************************)
(* fn sample.  ThreadRng is a deterministic generator: a state, a step and *)
(* the value in [0, 1) that gen_range(0.0, 1.0) yields from the state.     *)
(* Here it is a full-period congruential generator over 16 states.         *)
(***************************************************************************)
\* const N: u32 = 256: the angular samples of a pixel, here a few.
N == 3

\* The states of the generator.
RngStates == 0..15

\* The generator's step.
RngNext(state) == (5 * state + 3) % 16

\* rng.gen_range(0.0, 1.0) from the state.
RngValue(state) == (state * SCALE) \div 16

\* One draw: the value is appended to the draws, the state steps.
RngDraw(g) == [state |-> RngNext(g.state), draws |-> Append(g.draws, RngValue(g.state))]

RECURSIVE RngDraws(_, _)
\* k draws in a row.
RngDraws(g, k) == IF k = 0 THEN g ELSE RngDraws(RngDraw(g), k - 1)

\* 2.0 * PI * (i as f64 + u) / N as f64
Angle(i, u) == FDiv(FMul(2 * PI, i * One + u), N * One)

\* |a| trace(scene, x, y, a.cos(), a.sin(), 0)
TraceAngle(sc, x, y, a) == trace(sc, x, y, Cos(a), Sin(a), 0).color

\* A pipeline without collect: a task may start as soon as its angle is mapped.
Streaming(mapped) == Len(mapped) >= 0

\* .collect::<Vec<f64>>(): the parallel iterator runs over the finished Vec.
Collected(mapped) == Len(mapped) = N

RECURSIVE ColorSum(_, _)
\* .sum() of the colours the function f gives for 1..k.
ColorSum(f, k) == IF k = 0 THEN black ELSE ColorAdd(ColorSum(f, k - 1), f[k])

\* The trace task of item i of the Vec: its angle and the colour it returns.
TraceTask(sc, x, y, mapped, i) ==
    [i |-> i, angle |-> mapped[i], color |-> TraceAngle(sc, x, y, mapped[i])]

\* .sum() over the tasks' colours, then sum * (1.0 / N as f64)
SampleColor(tasks) ==
    ColorScale(ColorSum([k \in 1..N |-> (CHOOSE t \in tasks : t.i = k).color], N),
               FDiv(One, N * One))

(***************************************************************************)
(* fn main: the pixel loop.                                                *)
(***************************************************************************)
\* const W: u32 = 512 and const H: u32 = 512: here a few pixels.
W == 3
H == 2

Min(a, b) == IF a < b THEN a ELSE b

\* A conversion that rounds to the nearest byte.
RoundByte(c) == Min((c * 255 + SCALE \div 2) \div SCALE, 255)

\* min((color.r * 255.0) as u32, 255) as u8: the cast of a non-negative f64
\* to u32 drops the fraction.
ChannelByte(c) == Min((c * 255) \div SCALE, 255)

\* Rgb([r, g, b])
Rgb(c) == <<ChannelByte(c.r), ChannelByte(c.g), ChannelByte(c.b)>>

\* The loop's next (x, y): y runs inside x.
NextCursor(c) == IF c[2] + 1 = H THEN <<c[1] + 1, 0>> ELSE <<c[1], c[2] + 1>>

sceneVars   == <<entities, reordered, ray, found, foundRev>>
csgVars     == <<csg, csgRay, csgHit>>
traceVars   == <<scene, traced>>
sampleVars  == <<rng, angles, results, pixel, phase>>
mainVars    == <<cursor, img, sampled, saved>>
polygonVars == <<polyArg, polygon, polyHit, panicked>>
vars == <<sceneVars, csgVars, traceVars, sampleVars, mainVars, polygonVars>>

\* The part of the program a specification does not run stays as constructed.
SceneIdle   == entities = <<>> /\ reordered = <<>> /\ ray = <<>> /\ found = None
               /\ foundRev = None
CsgIdle     == csg = None /\ csgRay = <<>> /\ csgHit = None
TraceIdle   == scene = <<>> /\ traced = None
SampleIdle  == rng = [state |-> 0, draws |-> <<>>] /\ angles = <<>> /\ results = {}
               /\ pixel = None /\ phase = "idle"
MainIdle    == cursor = <<0, 0>> /\ img = <<>> /\ sampled = black /\ saved = FALSE
PolygonIdle == polyArg = [called |-> FALSE, p |-> <<>>] /\ polygon = None /\ polyHit = None /\ panicked = FALSE

(***************************************************************************)
(* Scene::intersect over two entities in both orders.  All shapes and rays *)
(* lie on the x axis with coordinates that are multiples of 0.1, where the *)
(* arithmetic is exact.                                                    *)
(***************************************************************************)
red   == Color(10 * One, 0, 0)
green == Color(0, 10 * One, 0)
glassy == Color(4 * One, 4 * One, 4 * One)

SceneEntities ==
    { Entity(Circle(300, 0, 100), red, 0, 0, black),
      Entity(Circle(300, 0, 100), green, 0, 0, black),
      Entity(rectangle(300, 0, 100, 100), black, 200, 1500, glassy),
      Entity(Plane(200, 0, -1000, 0), black, 500, 0, black),
      Entity(Circle(600, 0, 100), green, 0, 0, black),
      Entity(UnionShape(Circle(200, 0, 100), Circle(700, 0, 100)), red, 1000, 0, black) }

AxisOrigins == { <<0, 0>>, <<300, 0>>, <<500, 0>>, <<900, 0>> }

AxisDirs == { <<One, 0>>, <<-One, 0>> }

Reverse(seq) == [i \in 1..Len(seq) |-> seq[Len(seq) + 1 - i]]

InitScene ==
    /\ SceneIdle /\ CsgIdle /\ TraceIdle /\ SampleIdle /\ MainIdle /\ PolygonIdle

\* let scene = Scene { entities: vec![a, b] }, and the reordered one.
SceneNew(a, b) ==
    /\ entities = <<>>
    /\ entities' = <<a, b>>
    /\ reordered' = Reverse(<<a, b>>)
    /\ UNCHANGED <<ray, found, foundRev>>
    /\ UNCHANGED <<csgVars, traceVars, sampleVars, mainVars, polygonVars>>

\* scene.intersect(p, d) on both scenes.
SceneIntersectCall(p, d) ==
    /\ entities # <<>>
    /\ ray' = <<p, d>>
    /\ found' = SceneIntersect(entities, p, d)
    /\ foundRev' = SceneIntersect(reordered, p, d)
    /\ UNCHANGED <<entities, reordered>>
    /\ UNCHANGED <<csgVars, traceVars, sampleVars, mainVars, polygonVars>>

NextScene ==
    \/ \E a \in SceneEntities, b \in SceneEntities : SceneNew(a, b)
    \/ \E p \in AxisOrigins, d \in AxisDirs : SceneIntersectCall(p, d)

SpecScene == InitScene /\ [][NextScene]_vars

\* The two entities' own hits for the last ray.
HitA == EntityIntersect(entities[1], ray[1], ray[2])
HitB == EntityIntersect(entities[2], ray[1], ray[2])
Tie  == IsSome(HitA) /\ IsSome(HitB)
        /\ distance(ray[1], HitA.point) = distance(ray[1], HitB.point)

\* C1 as stated: Scene::intersect over [A, B] and over [B, A] returns the same
\* result for every ray, also when both entities are hit at equal distance
\* and carry different materials.
C1_OrderIndependent == ray # <<>> => found = foundRev

\* C1 amended: the two orders agree whenever at most one entity is hit or the
\* two hit distances differ (the result is then the nearer hit); at equal
\* distance each order returns the hit of the entity it lists first.
C1_NearestFirstListedOnTie ==
    ray # <<>> =>
        /\ Tie => found = HitA /\ foundRev = HitB
        /\ ~Tie => /\ found = foundRev
                   /\ IsSome(HitA) \/ IsSome(HitB) => found \in {HitA, HitB}
                   /\ IsSome(found) <=> IsSome(HitA) \/ IsSome(HitB)
                   /\ \A h \in {HitA, HitB} :
                         IsSome(h) => distance(ray[1], found.point) <= distance(ray[1], h.point)

\* Both entities are hit at equal distance, their materials differ, and the
\* two orders return different results.
C1_TieWitness ==
    /\ ray # <<>> /\ Tie
    /\ HitA.emissive # HitB.emissive
    /\ found # foundRev

(***************************************************************************)
(* IntersectShape::intersect.  The children and the rays lie on the x axis *)
(* and every boundary is at a multiple of Grid, so the region A AND B is a *)
(* union of open intervals between grid points and its boundary is read    *)
(* off is_inside at the grid points and at the midpoints between them.     *)
(***************************************************************************)
Grid == SCALE \div 10

GridMax == 10

CsgChildren ==
    { Circle(200, 0, 100),
      Circle(700, 0, 200),
      Circle(600, 0, 200),
      Plane(700, 0, One, 0),
      rectangle(500, 0, 200, 100),
      UnionShape(Circle(200, 0, 100), Circle(700, 0, 200)),
      IntersectShape(Circle(700, 0, 200), Plane(700, 0, One, 0)) }

CsgOrigins == { <<0, 0>>, <<300, 0>>, <<600, 0>>, <<1000, 0>> }

\* The point (x, 0) is on the boundary of the region of s: not inside, with
\* the region reaching it from the left or from the right.
OnBoundary(s, x) ==
    /\ ~ShapeIsInside(s, <<x, 0>>)
    /\ \/ ShapeIsInside(s, <<x - Grid \div 2, 0>>)
       \/ ShapeIsInside(s, <<x + Grid \div 2, 0>>)

\* The grid points on the boundary of s.
ChildBoundary(s) == { g \in 0..GridMax : OnBoundary(s, g * Grid) }

InitCsg ==
    /\ SceneIdle /\ CsgIdle /\ TraceIdle /\ SampleIdle /\ MainIdle /\ PolygonIdle

\* IntersectShape::new(a, b).  The children have no boundary point in common:
\* at such a point is_inside is decided by f64 rounding.
IntersectShapeNew(a, b) ==
    /\ csg = None
    /\ ChildBoundary(a) \cap ChildBoundary(b) = {}
    /\ csg' = IntersectShape(a, b)
    /\ UNCHANGED <<csgRay, csgHit>>
    /\ UNCHANGED <<sceneVars, traceVars, sampleVars, mainVars, polygonVars>>

\* csg.intersect(p, d)
IntersectShapeCall(p, d) ==
    /\ csg # None
    /\ csgRay' = <<p, d>>
    /\ csgHit' = ShapeIntersect(csg, p, d)
    /\ UNCHANGED csg
    /\ UNCHANGED <<sceneVars, traceVars, sampleVars, mainVars, polygonVars>>

NextCsg ==
    \/ \E a \in CsgChildren, b \in CsgChildren : IntersectShapeNew(a, b)
    \/ \E p \in CsgOrigins, d \in AxisDirs : IntersectShapeCall(p, d)

SpecCsg == InitCsg /\ [][NextCsg]_vars

\* The parameters t > EPSILON at which the ray (p, d) meets the boundary of s.
BoundaryTs(s, p, d) ==
    { t \in { FDiv(g * Grid - p[1], d[1]) : g \in 0..GridMax } :
          t > EPSILON /\ OnBoundary(s, p[1] + FMul(d[1], t)) }

\* C5: IntersectShape::intersect returns the nearest point along the ray with
\* t > EPSILON on the boundary of the region A AND B (the region of
\* IntersectShape::is_inside), and none only if the ray meets no such point.
C5_TrimsToRegion ==
    csgRay # <<>> =>
        LET ts == BoundaryTs(csg, csgRay[1], csgRay[2])
        IN  IF ts = {} THEN csgHit = None
            ELSE /\ IsSome(csgHit)
                 /\ \E t \in ts :
                       /\ \A u \in ts : t <= u
                       /\ csgHit.point = <<csgRay[1][1] + FMul(csgRay[2][1], t), 0>>

\* Where C5 does hold: both children are primitives (circle, half-plane,
\* convex polygon).
CsgPrimitive(s) == s.kind \in {"Circle", "Plane", "Polygon"}
TrimsPrimitives ==
    (csgRay # <<>> /\ CsgPrimitive(csg.a) /\ CsgPrimitive(csg.b)) => C5_TrimsToRegion

(***************************************************************************)
(* trace.  The scenes: the one main builds, the refractive absorbing       *)
(* circle in front of a lamp, and a glowing glass block with zero          *)
(* reflectivity beside a mirror.  The rays start at pixel positions in     *)
(* [0, 1) x [0, 1) and have unit directions.                               *)
(***************************************************************************)
white == Color(10 * One, 10 * One, 10 * One)

\* main: let scene = Scene { entities: vec![..] }
MainScene ==
    << Entity(Circle(-200, -200, 100), white, 0, 0, black),
       Entity(rectangle(500, 500, 300, 200), black, 200, 1500, glassy) >>

CircleScene ==
    << Entity(Circle(500, 500, 200), black, 200, 1500, glassy),
       Entity(Circle(500, 1100, 100), white, 0, 0, black) >>

BlockScene ==
    << Entity(rectangle(500, 500, 300, 200), Color(One, 2 * One, 3 * One), 0, 1500,
              Color(One, 2 * One, 4 * One)),
       Entity(Plane(-100, 0, One, 0), Color(One, 0, 0), 500, 0, black),
       Entity(Circle(500, -300, 100), white, 0, 0, black) >>

TraceScenes == { MainScene, CircleScene, BlockScene }

TraceOrigins == { <<500, 500>>, <<500, 100>>, <<100, 500>>, <<0, 0>>, <<900, 900>> }

TraceDirs ==
    { <<One, 0>>, <<-One, 0>>, <<0, One>>, <<0, -One>>,
      <<600, 800>>, <<-600, 800>>, <<600, -800>>, <<-600, -800>>,
      <<800, 600>>, <<-800, 600>>, <<800, -600>>, <<-800, -600>> }

InitTrace ==
    /\ SceneIdle /\ CsgIdle /\ TraceIdle /\ SampleIdle /\ MainIdle /\ PolygonIdle

\* The Scene is constructed once, before any trace.
TraceSceneNew(sc) ==
    /\ scene = <<>>
    /\ scene' = sc
    /\ UNCHANGED traced
    /\ UNCHANGED <<sceneVars, csgVars, sampleVars, mainVars, polygonVars>>

\* trace(&scene, ox, oy, dx, dy, 0)
TraceCall(o, d) ==
    /\ scene # <<>>
    /\ traced = None
    /\ traced' = trace(scene, o[1], o[2], d[1], d[2], 0)
    /\ UNCHANGED scene
    /\ UNCHANGED <<sceneVars, csgVars, sampleVars, mainVars, polygonVars>>

\* The caller takes the colour; the call's record is gone.
TraceReturn ==
    /\ traced # None
    /\ traced' = None
    /\ UNCHANGED scene
    /\ UNCHANGED <<sceneVars, csgVars, sampleVars, mainVars, polygonVars>>

NextTrace ==
    \/ \E sc \in TraceScenes : TraceSceneNew(sc)
    \/ \E o \in TraceOrigins, d \in TraceDirs : TraceCall(o, d)
    \/ TraceReturn

SpecTrace == InitTrace /\ [][NextTrace]_vars

\* The recursive calls a call made.
Children(n) == { n.refracted[i] : i \in 1..Len(n.refracted) }
               \cup { n.reflected[i] : i \in 1..Len(n.reflected) }

RECURSIVE Calls(_)
\* Every call under (and including) the call n.
Calls(n) == {n} \cup UNION { Calls(c) : c \in Children(n) }

RECURSIVE CallCount(_)
\* The number of calls under (and including) the call n.
CallCount(n) ==
    1 + (IF n.refracted = <<>> THEN 0 ELSE CallCount(n.refracted[1]))
      + (IF n.reflected = <<>> THEN 0 ELSE CallCount(n.reflected[1]))

AllCalls == IF traced = None THEN {} ELSE Calls(traced)

\* The colour a call contributes from a recursive call: black when not made.
ChildColor(seq) == IF seq = <<>> THEN black ELSE seq[1].color

\* The transmittance a call that hit from inside applies.
Transmittance(n) == beer_lambert(n.r.absorption, distance(n.origin, n.r.point))

\* emissive + reflected * r + refracted * (1 - r), with r the call's working
\* reflectivity and black for a recursive call that was not made.
EnergySplit(n) ==
    ColorAdd(ColorAdd(n.r.emissive, ColorScale(ChildColor(n.reflected), n.refl)),
             ColorScale(ChildColor(n.refracted), One - n.refl))

\* The call hit a refractive material below the depth bound and refraction
\* succeeded.
Refracted(n) == n.hit /\ n.r.eta > 0 /\ n.depth < MAX_DEPTH /\ ~n.tir

\* The reflectance trace computes on a successful refraction.
SplitReflectance(n) ==
    Reflectance(n.r, n.sign, n.dir[1], n.dir[2], n.n[1], n.n[2],
                n.refracted[1].dir[1], n.refracted[1].dir[2])

\* C2 as stated: whenever the hit has eta > 0 and refract succeeds with
\* reflectance r, the returned colour is exactly
\* emissive + reflected * r + refracted * (1 - r), with no other factor.
C2_EnergySplitOnly ==
    \A n \in AllCalls :
        Refracted(n) =>
            /\ Len(n.refracted) = 1
            /\ n.refl = SplitReflectance(n)
            /\ n.color = EnergySplit(n)

\* C2 amended: whenever the hit has eta > 0, depth < MAX_DEPTH and refract
\* succeeds with reflectance r, the returned colour is
\* emissive + reflected * r + refracted * (1 - r) when the surface was hit
\* from outside (sign > 0), and that sum multiplied channel-wise by the
\* Beer-Lambert transmittance when it was hit from inside (sign < 0); the
\* reflected call is made only if r > 0.
C2_EnergySplitThenAbsorb ==
    \A n \in AllCalls :
        Refracted(n) =>
            /\ Len(n.refracted) = 1
            /\ n.refracted[1].depth = n.depth + 1
            /\ n.refl = SplitReflectance(n)
            /\ Len(n.reflected) = (IF n.refl > 0 THEN 1 ELSE 0)
            /\ n.sign > 0 => n.color = EnergySplit(n)
            /\ n.sign < 0 => n.color = ColorMul(EnergySplit(n), Transmittance(n))

\* A call hit glass from inside, refraction succeeded, both recursive calls
\* returned light, and absorption changed the colour.
C2_Witness ==
    \E n \in AllCalls :
        /\ Refracted(n) /\ n.sign < 0
        /\ Len(n.reflected) = 1 /\ n.reflected[1].color # black
        /\ n.refracted[1].color # black
        /\ n.color # EnergySplit(n)

\* MAX_DEPTH = 3: a call makes at most two recursive calls, so a top-level
\* call makes at most 1 + 2 + 4 + 8 calls.
MaxCalls == 2 ^ (MAX_DEPTH + 1) - 1

\* C4: from trace(.., depth = 0), every nested call has depth <= MAX_DEPTH; a
\* call at depth MAX_DEPTH makes no recursive call and returns its emissive
\* colour, attenuated if it hit from inside; each call makes at most two
\* recursive calls, each at depth + 1; and the recursion ends, after at most
\* MaxCalls calls.
C4_DepthBounded ==
    traced # None =>
        /\ traced.depth = 0
        /\ CallCount(traced) <= MaxCalls
        /\ \A n \in AllCalls :
              /\ n.depth <= MAX_DEPTH
              /\ Len(n.refracted) + Len(n.reflected) <= 2
              /\ \A c \in Children(n) : c.depth = n.depth + 1
              /\ (n.depth = MAX_DEPTH) =>
                    /\ Children(n) = {}
                    /\ n.hit => n.color = IF n.sign < 0
                                          THEN ColorMul(n.r.emissive, Transmittance(n))
                                          ELSE n.r.emissive
                    /\ ~n.hit => n.color = black

\* A call at depth MAX_DEPTH hit a reflective or refractive surface (it would
\* recurse were the depth not exhausted), under a call that made two calls.
C4_Witness ==
    /\ \E n \in AllCalls :
          n.depth = MAX_DEPTH /\ n.hit /\ (n.r.reflectivity > 0 \/ n.r.eta > 0)
    /\ \E n \in AllCalls : Len(n.refracted) + Len(n.reflected) = 2

\* The colour a call accumulated before any attenuation, from what its
\* recursive calls returned.
Accumulated(n) ==
    ColorAdd(ColorAdd(n.r.emissive,
                      IF n.refracted = <<>> THEN black
                      ELSE ColorScale(n.refracted[1].color, One - n.refl)),
             IF n.reflected = <<>> THEN black
             ELSE ColorScale(n.reflected[1].color, n.refl))

\* The call runs inside the circle of CircleScene along its vertical diameter.
AlongDiameter(n) ==
    /\ scene = CircleScene
    /\ n.origin \in { <<500, 300>>, <<500, 700>> }
    /\ n.dir[1] = 0
    /\ n.hit /\ n.r.eta > 0 /\ n.sign < 0

\* C6: a call whose hit is reached from inside (sign < 0, normal . d >= 0)
\* multiplies its whole accumulator (emissive plus the weighted recursive
\* colours) once by exp(-absorption * distance(origin, hit point)); a call
\* whose hit is reached from outside applies no attenuation; along a diameter
\* of length L of the absorbing circle the factor is exp(-a * L).
C6_BeerLambertOnce ==
    \A n \in AllCalls :
        n.hit =>
            /\ (n.sign < 0) <=> (n.r.normal[1] * n.dir[1] + n.r.normal[2] * n.dir[2] >= 0)
            /\ n.sign \in {-1, 1}
            /\ n.sign < 0 =>
                  n.color = ColorMul(Accumulated(n),
                                     Color(ExpNeg(FMul(n.r.absorption.r, distance(n.origin, n.r.point))),
                                           ExpNeg(FMul(n.r.absorption.g, distance(n.origin, n.r.point))),
                                           ExpNeg(FMul(n.r.absorption.b, distance(n.origin, n.r.point)))))
            /\ n.sign > 0 => n.color = Accumulated(n)
            /\ AlongDiameter(n) =>
                  /\ distance(n.origin, n.r.point) = 2 * 200
                  /\ n.color = ColorScale(Accumulated(n), ExpNeg(FMul(4 * One, 2 * 200)))

\* A call crossed the absorbing circle along its diameter, light came back
\* from beyond, and the returned colour is dimmer than the accumulator.
C6_Witness ==
    \E n \in AllCalls :
        /\ AlongDiameter(n)
        /\ Accumulated(n).r > 0
        /\ n.color.r < Accumulated(n).r
        /\ \E m \in AllCalls : m.hit /\ m.sign > 0 /\ m.color # black

\* refract signals total internal reflection for the call's hit.
TotalInternal(n) ==
    /\ n.hit /\ n.r.eta > 0 /\ n.depth < MAX_DEPTH
    /\ refract(n.dir[1], n.dir[2], n.n[1], n.n[2],
               IF n.sign < 0 THEN n.r.eta ELSE FDiv(One, n.r.eta)) = None

\* C9: when the hit material has eta > 0, depth < MAX_DEPTH and refract fails,
\* trace makes no refracted call, sets the working reflectivity to 1 whatever
\* the material's reflectivity, and makes exactly one recursive call, with the
\* reflected ray at depth + 1, whose colour is added with weight 1.
C9_TotalInternalReflection ==
    \A n \in AllCalls :
        TotalInternal(n) =>
            /\ n.refracted = <<>>
            /\ n.refl = One
            /\ Len(n.reflected) = 1
            /\ n.reflected[1].depth = n.depth + 1
            /\ n.reflected[1].dir = reflect(n.dir[1], n.dir[2], n.n[1], n.n[2])
            /\ n.sum = ColorAdd(n.r.emissive, n.reflected[1].color)

\* Total internal reflection on a material of reflectivity 0, with light
\* coming back along the reflected ray.
C9_Witness ==
    \E n \in AllCalls :
        /\ TotalInternal(n)
        /\ n.r.reflectivity = 0
        /\ n.reflected # <<>> /\ n.reflected[1].color # black

\* The displacement of a recursive call's origin from the hit point, along
\* the oriented normal of the call that made it.
Displacement(n, c) ==
    (c.origin[1] - n.r.point[1]) * n.n[1] + (c.origin[2] - n.r.point[2]) * n.n[2]

\* C10 as stated: every recursive ray starts at the hit point displaced along
\* the oriented normal by a non-zero bias, outward for the reflected ray and
\* inward for the refracted ray, never at the unmodified hit point.
C10_BiasedOrigin ==
    \A n \in AllCalls :
        /\ \A i \in 1..Len(n.reflected) :
              n.reflected[i].origin # n.r.point /\ Displacement(n, n.reflected[i]) > 0
        /\ \A i \in 1..Len(n.refracted) :
              n.refracted[i].origin # n.r.point /\ Displacement(n, n.refracted[i]) < 0

\* C10 amended: every recursive ray, reflected or refracted, starts exactly at
\* the unmodified hit point r.point; no bias is applied (the shapes' t > EPSILON
\* test is what keeps it from hitting the same surface again).
C10_OriginIsHitPoint ==
    \A n \in AllCalls : \A c \in Children(n) : c.origin = n.r.point

\* A call made both a refracted and a reflected recursive call.
C10_Witness ==
    \E n \in AllCalls : Len(n.refracted) = 1 /\ Len(n.reflected) = 1

(***************************************************************************)
(* sample on the scene of main: the N draws are mapped to angles one after *)
(* the other, the Vec is collected, and the N trace tasks then run in any  *)
(* order.                                                                  *)
(***************************************************************************)
SamplePoints == { <<0, 0>>, <<333, 500>>, <<900, 100>> }

InitSample ==
    /\ scene = MainScene /\ traced = None
    /\ rng \in { [state |-> st, draws |-> <<>>] : st \in RngStates }
    /\ angles = <<>> /\ results = {} /\ pixel = None /\ phase = "idle"
    /\ SceneIdle /\ CsgIdle /\ MainIdle /\ PolygonIdle

\* sample(&scene, &mut rng, x, y)
SampleCall(x, y) ==
    /\ phase = "idle"
    /\ pixel' = [at |-> <<x, y>>, color |-> None]
    /\ phase' = "running"
    /\ UNCHANGED <<rng, angles, results>>
    /\ UNCHANGED <<sceneVars, csgVars, traceVars, mainVars, polygonVars>>

\* (0..N).map(|i| 2.0 * PI * (i as f64 + rng.gen_range(0.0, 1.0)) / N as f64):
\* the next item of the sequential iterator.
SampleDraw ==
    /\ phase = "running"
    /\ Len(angles) < N
    /\ rng' = RngDraw(rng)
    /\ angles' = Append(angles, Angle(Len(angles), RngValue(rng.state)))
    /\ UNCHANGED <<results, pixel, phase>>
    /\ UNCHANGED <<sceneVars, csgVars, traceVars, mainVars, polygonVars>>

\* .par_iter().map(|a| trace(scene, x, y, a.cos(), a.sin(), 0)): the task of
\* item k, on whichever thread, at whichever time.
SampleTraceTask(k) ==
    /\ phase = "running"
    /\ Collected(angles)
    /\ k \in 1..Len(angles)
    /\ \A t \in results : t.i # k
    /\ results' = results \cup { TraceTask(scene, pixel.at[1], pixel.at[2], angles, k) }
    /\ UNCHANGED <<rng, angles, pixel, phase>>
    /\ UNCHANGED <<sceneVars, csgVars, traceVars, mainVars, polygonVars>>

\* .sum(); sum * (1.0 / N as f64)
SampleSum ==
    /\ phase = "running"
    /\ Len(angles) = N
    /\ \A k \in 1..N : \E t \in results : t.i = k
    /\ pixel' = [pixel EXCEPT !.color = SampleColor(results)]
    /\ phase' = "done"
    /\ UNCHANGED <<rng, angles, results>>
    /\ UNCHANGED <<sceneVars, csgVars, traceVars, mainVars, polygonVars>>

NextSample ==
    \/ \E pt \in SamplePoints : SampleCall(pt[1], pt[2])
    \/ SampleDraw
    \/ \E k \in 1..N : SampleTraceTask(k)
    \/ SampleSum

SpecSample == InitSample /\ [][NextSample]_vars

\* What a single-threaded run yields from the draws: item i traced after
\* item i - 1, each with the angle of its own draw.
SingleThreaded(at, draws) ==
    { TraceTask(scene, at[1], at[2], [i \in 1..N |-> Angle(i - 1, draws[i])], k) : k \in 1..N }

\* C3: sample takes exactly N draws; draw i gives the angle of stratum i, in
\* ascending i; no trace task runs before all N draws are taken; and whatever
\* the order of the tasks, the (angle, colour) pairs at the end are those of a
\* single-threaded run over the same draws.
C3_DrawsBeforeParallelTrace ==
    /\ Len(rng.draws) <= N
    /\ Len(angles) = Len(rng.draws)
    /\ \A i \in 1..Len(angles) : angles[i] = Angle(i - 1, rng.draws[i])
    /\ results # {} => Len(rng.draws) = N
    /\ \A t \in results : t.angle = Angle(t.i - 1, rng.draws[t.i])
    /\ phase = "done" =>
          /\ Len(rng.draws) = N
          /\ results = SingleThreaded(pixel.at, rng.draws)

\* A sample is over whose tasks found different colours in different strata,
\* and the last item was not traced last.
C3_Witness ==
    /\ phase = "done"
    /\ \E t, u \in results : t.color # u.color /\ t.color # black /\ t.angle < u.angle

(***************************************************************************)
(* main: the pixel loop over a W x H image, then the save.                 *)
(***************************************************************************)
Pixels == (0..(W - 1)) \X (0..(H - 1))

\* ImageBuffer::from_pixel(W, H, Rgb([0u8, 0u8, 0u8])); rand::thread_rng();
\* let scene = Scene { .. }
InitMain ==
    /\ img = [px \in Pixels |-> <<0, 0, 0>>]
    /\ rng \in { [state |-> st, draws |-> <<>>] : st \in RngStates }
    /\ scene = MainScene /\ traced = None
    /\ cursor = <<0, 0>> /\ sampled = black /\ saved = FALSE
    /\ angles = <<>> /\ results = {} /\ pixel = None /\ phase = "idle"
    /\ SceneIdle /\ CsgIdle /\ PolygonIdle

\* The pixel's (xx, yy): x as f64 / W as f64, y as f64 / H as f64.
PixelAt(c) == <<FDiv(c[1] * One, W * One), FDiv(c[2] * One, H * One)>>

\* The body of for x in 0..W { for y in 0..H { .. } }: sample runs from its
\* first draw to its return, then the pixel is put.
MainPixel ==
    /\ cursor[1] < W
    /\ rng' = RngDraws(rng, N)
    /\ angles' = [i \in 1..N |-> Angle(i - 1, rng'.draws[Len(rng.draws) + i])]
    /\ results' = { TraceTask(scene, PixelAt(cursor)[1], PixelAt(cursor)[2], angles', k) :
                      k \in 1..N }
    /\ pixel' = [at |-> PixelAt(cursor), color |-> SampleColor(results')]
    /\ phase' = "done"
    /\ sampled' = pixel'.color
    /\ img' = [img EXCEPT ![cursor] = Rgb(sampled')]
    /\ cursor' = NextCursor(cursor)
    /\ UNCHANGED saved
    /\ UNCHANGED <<sceneVars, csgVars, traceVars, polygonVars>>

\* img.save("out.png").unwrap()
MainSave ==
    /\ cursor[1] = W
    /\ ~saved
    /\ saved' = TRUE
    /\ UNCHANGED <<cursor, img, sampled, sampleVars>>
    /\ UNCHANGED <<sceneVars, csgVars, traceVars, polygonVars>>

NextMain == MainPixel \/ MainSave

SpecMain == InitMain /\ [][NextMain]_vars

\* The pixel the last iteration wrote.
LastPixel == IF cursor[2] = 0 THEN <<cursor[1] - 1, H - 1>> ELSE <<cursor[1], cursor[2] - 1>>

\* round(c * 255) clamped into [0, 255]
Rounded(c) == IF 2 * (c * 255) + SCALE >= 2 * 255 * SCALE THEN 255
              ELSE (2 * (c * 255) + SCALE) \div (2 * SCALE)

\* floor(c * 255) clamped into [0, 255]
Floored(c) == IF c * 255 >= 255 * SCALE THEN 255 ELSE (c * 255) \div SCALE

\* C7 as stated: for every pixel and channel, the byte written is
\* round(channel * 255) clamped into [0, 255].
C7_RoundedByte ==
    cursor # <<0, 0>> =>
        img[LastPixel] = <<Rounded(sampled.r), Rounded(sampled.g), Rounded(sampled.b)>>

\* C7 amended: for every pixel and channel, the byte written is
\* floor(channel * 255) clamped into [0, 255] (the fraction is dropped, not
\* rounded), for every non-negative channel value whose product with 255 is
\* below 2^32.
C7_TruncatedByte ==
    cursor # <<0, 0>> =>
        /\ sampled.r >= 0 /\ sampled.g >= 0 /\ sampled.b >= 0
        /\ img[LastPixel] = <<Floored(sampled.r), Floored(sampled.g), Floored(sampled.b)>>
        /\ \A i \in 1..3 : img[LastPixel][i] \in 0..255

\* A pixel was written whose channel times 255 has a fraction of 0.5 or more
\* and is below 255, after a pixel brighter than 1.0 was written.
C7_Witness ==
    /\ cursor # <<0, 0>>
    /\ (sampled.r * 255) % SCALE >= SCALE \div 2
    /\ sampled.r * 255 < 254 * SCALE
    /\ \E px \in Pixels : img[px] = <<255, 255, 255>>

(***************************************************************************)
(* Polygon::new on vertex lists of every length from 0, and                *)
(* Polygon::intersect on what it returned.                                 *)
(***************************************************************************)
MaxPoints == 3

Vertices == { <<0, 0>>, <<400, 0>>, <<400, 300>>, <<0, 300>> }

VertexLists == UNION { [1..k -> Vertices] : k \in 0..MaxPoints }

PolygonRays == { <<<<200, -500>>, <<0, One>>>>, <<<<-500, 100>>, <<One, 0>>>>,
                 <<<<200, 100>>, <<600, 800>>>> }

InitPolygon ==
    /\ PolygonIdle
    /\ SceneIdle /\ CsgIdle /\ TraceIdle /\ SampleIdle /\ MainIdle

\* Polygon::new(p)
PolygonNew(p) ==
    /\ ~panicked
    /\ polygon = None
    /\ polyArg' = [called |-> TRUE, p |-> p]
    /\ IF EnoughPoints(p)
       THEN polygon' = Polygon(p) /\ UNCHANGED panicked
       ELSE panicked' = TRUE /\ UNCHANGED polygon
    /\ UNCHANGED polyHit
    /\ UNCHANGED <<sceneVars, csgVars, traceVars, sampleVars, mainVars>>

\* polygon.intersect(p, d) on the constructed value.
PolygonIntersectCall(p, d) ==
    /\ ~panicked
    /\ polygon # None
    /\ polyHit' = [p |-> p, d |-> d, points |-> polygon.points,
                   hit |-> PolygonIntersect(polygon, p, d)]
    /\ UNCHANGED <<polyArg, polygon, panicked>>
    /\ UNCHANGED <<sceneVars, csgVars, traceVars, sampleVars, mainVars>>

NextPolygon ==
    \/ \E p \in VertexLists : PolygonNew(p)
    \/ \E r \in PolygonRays : PolygonIntersectCall(r[1], r[2])

SpecPolygon == InitPolygon /\ [][NextPolygon]_vars

\* C8: Polygon::new with fewer than 2 points panics and yields no Polygon, so
\* no intersect call runs against such a polygon; with 2 or more points it
\* returns a Polygon holding exactly the given points in the given order.
C8_TooFewPointsPanics ==
    /\ polyArg.called =>
          IF Len(polyArg.p) < 2
          THEN panicked /\ polygon = None /\ polyHit = None
          ELSE ~panicked /\ polygon # None /\ polygon.points = polyArg.p
    /\ ~polyArg.called => ~panicked /\ polygon = None
    /\ polygon # None => Len(polygon.points) >= 2
    /\ polyHit # None => Len(polyHit.points) >= 2 /\ polyHit.points = polyArg.p

\* Polygon::new was called with exactly one point.
C8_Witness == polyArg.called /\ Len(polyArg.p) = 1 /\ panicked

====
